---- MODULE Spec2Model ----
(***************************************************************************)
(* A model of the BlueIris session client of blueiris.py: the login        *)
(* handshake, the command dispatch (cmd), the cached accessors and the     *)
(* mutating wrappers.  Python values are tagged pairs <<tag, payload>>;    *)
(* a dict payload is a set of <<key, value>> pairs, a list payload is a    *)
(* sequence.  Every action is one call of a public method by the caller,   *)
(* with the server's answers to the requests the call posts drawn from     *)
(* small sets.                                                             *)
(***************************************************************************)
EXTENDS Integers, Sequences, FiniteSets, TLC

(***************************************************************************)
(* Bounds of the model.                                                    *)
(***************************************************************************)
\* number of distinct session tokens the server may issue
NumTokens == 2
\* number of cameras the server may list
MaxCams == 2

(***************************************************************************)
(* Python values.                                                          *)
(***************************************************************************)
PyStr(s) == <<"str", s>>
PyInt(n) == <<"int", n>>
PyBool(b) == <<"bool", b>>
PyList(q) == <<"list", q>>
PyDict(kv) == <<"dict", kv>>
PyEnum(cls, name) == <<"enum", <<cls, name>>>>
PyNone == <<"none", "None">>
\* an attribute that __init__ has not assigned yet
Unset == <<"unset", "unset">>

Tag(v) == v[1]
Val(v) == v[2]

\* key in d, for a dict payload d
HasKey(d, k) == \E kv \in d : kv[1] = k
\* d[k]
Item(d, k) == (CHOOSE kv \in d : kv[1] = k)[2]
\* d.get(k, default)
Get(d, k, default) == IF HasKey(d, k) THEN Item(d, k) ELSE default
\* an update in which the keys already in d keep their values
Update_keeps_existing(d, p) == d \cup {kv \in p : ~HasKey(d, kv[1])}
\* d.update(p) on dict payloads: the keys of p replace those of d
Update(d, p) == {kv \in d : ~HasKey(p, kv[1])} \cup p

\* bool(v): Python truthiness
Truthy(v) ==
    CASE Tag(v) = "bool" -> Val(v)
      [] Tag(v) = "int" -> Val(v) # 0
      [] Tag(v) = "str" -> Val(v) # ""
      [] Tag(v) = "list" -> Val(v) # <<>>
      [] Tag(v) = "dict" -> Val(v) # {}
      [] Tag(v) = "none" -> FALSE
      [] OTHER -> TRUE

\* x in container, for a list (membership by ==)
InList(x, l) == \E i \in 1..Len(Val(l)) : Val(l)[i] = x

(***************************************************************************)
(* Module constants of blueiris.py.                                        *)
(***************************************************************************)
UNKNOWN_DICT == PyDict({<<"-1", PyStr("")>>})
UNKNOWN_LIST == PyList(<<PyDict({<<"-1", PyStr("")>>})>>)
UNKNOWN_HASH == PyInt(-1)
UNKNOWN_STRING == PyStr("noname")

\* Signal.__members__: name -> value
Signal == {<<"RED", 0>>, <<"YELLOW", 2>>, <<"GREEN", 1>>}

\* PTZCommand.__members__: name -> value (HOME is an alias of CENTER)
PTZCommand ==
    {<<"PAN_LEFT", 0>>, <<"PAN_RIGHT", 1>>, <<"TILT_UP", 2>>, <<"TILT_DOWN", 3>>,
     <<"CENTER", 4>>, <<"HOME", 4>>, <<"ZOOM_IN", 5>>, <<"ZOOM_OUT", 6>>,
     <<"POWER_50", 8>>, <<"POWER_60", 9>>, <<"POWER_OUTDOOR", 10>>, <<"BRIGHTNESS_0", 11>>,
     <<"BRIGHTNESS_1", 12>>, <<"BRIGHTNESS_2", 13>>, <<"BRIGHTNESS_3", 14>>, <<"BRIGHTNESS_4", 15>>,
     <<"BRIGHTNESS_5", 16>>, <<"BRIGHTNESS_6", 17>>, <<"BRIGHTNESS_7", 18>>, <<"BRIGHTNESS_8", 19>>,
     <<"BRIGHTNESS_9", 20>>, <<"BRIGHTNESS_10", 21>>, <<"BRIGHTNESS_11", 22>>, <<"BRIGHTNESS_12", 23>>,
     <<"BRIGHTNESS_13", 24>>, <<"BRIGHTNESS_14", 25>>, <<"BRIGHTNESS_15", 26>>, <<"CONTRAST_0", 27>>,
     <<"CONTRAST_1", 28>>, <<"CONTRAST_2", 29>>, <<"CONTRAST_3", 30>>, <<"CONTRAST_4", 31>>,
     <<"CONTRAST_5", 32>>, <<"CONTRAST_6", 33>>, <<"IR_ON", 34>>, <<"IR_OFF", 35>>,
     <<"PRESET_1", 101>>, <<"PRESET_2", 102>>, <<"PRESET_3", 103>>, <<"PRESET_4", 104>>,
     <<"PRESET_5", 105>>, <<"PRESET_6", 106>>, <<"PRESET_7", 107>>, <<"PRESET_8", 108>>,
     <<"PRESET_9", 109>>, <<"PRESET_10", 110>>, <<"PRESET_11", 111>>, <<"PRESET_12", 112>>,
     <<"PRESET_13", 113>>, <<"PRESET_14", 114>>, <<"PRESET_15", 115>>, <<"PRESET_16", 116>>,
     <<"PRESET_17", 117>>, <<"PRESET_18", 118>>, <<"PRESET_19", 119>>, <<"PRESET_20", 120>>}

\* has_value without the lookup of a str among the member names
has_value_any_name(members, value) ==
    IF Tag(value) = "str"
    THEN TRUE
    ELSE Tag(value) = "int" /\ \E m \in members : m[2] = Val(value)

\* Enum.has_value(value): a str is looked up among the member names, anything
\* else is compared with the member values
has_value(members, value) ==
    IF Tag(value) = "str"
    THEN \E m \in members : m[1] = Val(value)
    ELSE Tag(value) = "int" /\ \E m \in members : m[2] = Val(value)

\* Enum.__members__.get(name): the member object (not its value), or None
MembersGet(cls, members, name) ==
    IF \E m \in members : m[1] = name THEN PyEnum(cls, name) ELSE PyNone

(***************************************************************************)
(* Conversions.                                                            *)
(***************************************************************************)
\* str(v) as "{}".format(v) renders it
FormatValue(v) ==
    CASE Tag(v) = "str" -> Val(v)
      [] Tag(v) = "int" /\ Val(v) = -1 -> "-1"
      [] Tag(v) = "int" /\ Val(v) = 0 -> "0"
      [] Tag(v) = "int" /\ Val(v) = 1 -> "1"
      [] Tag(v) = "int" /\ Val(v) = 2 -> "2"
      [] OTHER -> "?"

\* int(v): the integer, or "ValueError"/"TypeError" when Python raises
ParsesAsInt(v) ==
    \/ Tag(v) = "int"
    \/ Tag(v) = "str" /\ Val(v) \in {"-2", "-1", "0", "1", "2", "3"}

IntOf(v) ==
    CASE Tag(v) = "int" -> Val(v)
      [] Tag(v) = "str" /\ Val(v) = "-2" -> 0 - 2
      [] Tag(v) = "str" /\ Val(v) = "-1" -> 0 - 1
      [] Tag(v) = "str" /\ Val(v) = "0" -> 0
      [] Tag(v) = "str" /\ Val(v) = "1" -> 1
      [] Tag(v) = "str" /\ Val(v) = "2" -> 2
      [] Tag(v) = "str" /\ Val(v) = "3" -> 3
      [] OTHER -> 0

\* json.dumps(v) succeeds: an Enum member is not JSON serializable
RECURSIVE JsonSerializable(_)
JsonSerializable(v) ==
    CASE Tag(v) \in {"str", "md5hex", "int", "bool", "none"} -> TRUE
      [] Tag(v) = "list" -> \A i \in 1..Len(Val(v)) : JsonSerializable(Val(v)[i])
      [] Tag(v) = "dict" -> \A kv \in Val(v) : JsonSerializable(kv[2])
      [] OTHER -> FALSE

\* hashlib.md5(text).hexdigest(): the str of the lower-case hex digits of the
\* digest, kept symbolic: distinct texts have distinct digests
md5_hexdigest(text) == <<"md5hex", text>>

\* "{}:{}:{}".format(user, token, password)
FormatCredentials(user, token, password) ==
    <<FormatValue(user), ":", FormatValue(token), ":", FormatValue(password)>>

(***************************************************************************)
(* The caller's constructor arguments and the server's answers.            *)
(***************************************************************************)
user == PyStr("admin")
password == PyStr("secret")
\* the debug argument of __init__, at its default
debug == FALSE

\* an HTTP response: status_code and the decoded JSON object of the body
Response(status_code, body) == [status_code |-> status_code, body |-> body]
\* a non-success transport status
HttpError == Response(500, {})

TokenName(i) ==
    CASE i = 1 -> "tok1" [] i = 2 -> "tok2" [] i = 3 -> "tok3" [] OTHER -> "tokN"
Tokens == {PyStr(TokenName(i)) : i \in 1..NumTokens}

CamCode(i) ==
    CASE i = 1 -> "cam1" [] i = 2 -> "cam2" [] i = 3 -> "cam3" [] OTHER -> "camN"
CamDisplay(i) ==
    CASE i = 1 -> "Cam 1" [] i = 2 -> "Cam 2" [] i = 3 -> "Cam 3" [] OTHER -> "Cam N"
CamRecord(i) ==
    PyDict({<<"optionValue", PyStr(CamCode(i))>>, <<"optionDisplay", PyStr(CamDisplay(i))>>})

\* answers to the first login request
LoginResponses1 ==
    {HttpError, Response(200, {})}
    \cup {Response(200, {<<"session", tok>>}) : tok \in Tokens}

\* data payloads of a successful authenticated login
FullSessionInfo ==
    PyDict({<<"system name", PyStr("Home")>>,
            <<"profiles", PyList(<<PyStr("Day"), PyStr("Night")>>)>>,
            <<"schedules", PyList(<<PyStr("Default")>>)>>,
            <<"admin", PyBool(TRUE)>>, <<"ptz", PyBool(TRUE)>>,
            <<"clips", PyBool(TRUE)>>, <<"version", PyStr("5.0")>>})
UserSessionInfo ==
    PyDict({<<"system name", PyStr("Home")>>, <<"admin", PyBool(FALSE)>>})
SessionInfos == {FullSessionInfo, UserSessionInfo}

\* answers to the authenticated login request
LoginResponses2 ==
    {HttpError, Response(200, {<<"result", PyStr("fail")>>})}
    \cup {Response(200, {<<"result", PyStr("success")>>, <<"data", d>>}) : d \in SessionInfos}

\* answers to a command whose payloads are drawn from datas: a transport
\* failure, a body with neither "result" nor "data", a bare result, and each
\* payload with a result of either kind
CmdResponses(datas) ==
    {HttpError,
     Response(200, {}),
     Response(200, {<<"result", PyStr("success")>>}),
     Response(200, {<<"result", PyStr("fail")>>})}
    \cup {Response(200, {<<"result", PyStr("success")>>, <<"data", d>>}) : d \in datas}
    \cup {Response(200, {<<"result", PyStr("fail")>>, <<"data", d>>}) : d \in datas}

\* payloads of the "status" command
StatusDatas ==
    {UNKNOWN_DICT,
     PyDict({<<"profile", PyStr("-1")>>}),
     PyDict({<<"profile", PyInt(0)>>, <<"signal", PyInt(0)>>}),
     PyDict({<<"profile", PyInt(1)>>, <<"signal", PyInt(1)>>}),
     PyDict({<<"profile", PyInt(2)>>, <<"signal", PyInt(2)>>})}
StatusResponses == CmdResponses(StatusDatas)

\* payloads of a command the caller dispatches with cmd itself: an object, an
\* array, scalars and null
AnyDatas ==
    {PyDict({<<"signal", PyInt(1)>>}), PyList(<<PyStr("a"), PyInt(1)>>), PyList(<<>>),
     PyStr("None"), PyInt(0), PyNone}
AnyResponses == CmdResponses(AnyDatas)

\* payloads of the "camlist" command: the first n cameras, or the value of
\* UNKNOWN_LIST
CamDatas ==
    {UNKNOWN_LIST} \cup {PyList([i \in 1..n |-> CamRecord(i)]) : n \in 0..MaxCams}
CamlistResponses ==
    {HttpError, Response(200, {<<"result", PyStr("success")>>})}
    \cup {Response(200, {<<"result", PyStr("success")>>, <<"data", d>>}) : d \in CamDatas}

\* payloads of "alertlist", "cliplist" and "log"
ListDatas ==
    {UNKNOWN_LIST, PyList(<<PyDict({<<"path", PyStr("@1.bvr")>>})>>)}
ListResponses ==
    {HttpError}
    \cup {Response(200, {<<"result", PyStr("success")>>, <<"data", d>>}) : d \in ListDatas}

(***************************************************************************)
(* The state of a BlueIris object, and the outcome of the caller's last    *)
(* call: the requests it posted, the levels it logged, what it returned    *)
(* and the exception it raised ("" when none).                             *)
(***************************************************************************)
VARIABLES phase, blueiris_session, response, _status, _camlist, _camcodes,
          _camnames, _alertlist, _cliplist, _profiles, _log, _name, _am_admin,
          _ptz_allowed, _clips_allowed, _schedules, _version, last,
          args_session

vars == <<phase, blueiris_session, response, _status, _camlist, _camcodes,
          _camnames, _alertlist, _cliplist, _profiles, _log, _name, _am_admin,
          _ptz_allowed, _clips_allowed, _schedules, _version, last,
          args_session>>

credentials == <<blueiris_session, response>>
caches == <<_camlist, _camcodes, _camnames, _alertlist, _cliplist, _log>>
attributes == <<_profiles, _name, _am_admin, _ptz_allowed, _clips_allowed,
                _schedules, _version>>

Outcome(op, arg, c, ret, exc) ==
    [op |-> op, arg |-> arg, sent |-> c.sent, recv |-> c.recv, logs |-> c.logs,
     ret |-> ret, exc |-> exc]

\* what a call has posted, received and logged so far
Io(sent, recv, logs) == [sent |-> sent, recv |-> recv, logs |-> logs]
NoIo == Io(<<>>, <<>>, <<>>)
ThenIo(a, b) == Io(a.sent \o b.sent, a.recv \o b.recv, a.logs \o b.logs)

\* the fields as __init__ sets them before it calls login()
Init ==
    /\ phase = "new"
    /\ blueiris_session = UNKNOWN_HASH
    /\ response = UNKNOWN_HASH
    /\ _status = UNKNOWN_DICT
    /\ _camlist = UNKNOWN_LIST
    /\ _camcodes = PyList(<<>>)
    /\ _camnames = PyList(<<>>)
    /\ _alertlist = UNKNOWN_LIST
    /\ _cliplist = UNKNOWN_LIST
    /\ _profiles = UNKNOWN_LIST
    /\ _log = UNKNOWN_LIST
    /\ _name = Unset
    /\ _am_admin = Unset
    /\ _ptz_allowed = Unset
    /\ _clips_allowed = Unset
    /\ _schedules = Unset
    /\ _version = Unset
    /\ last = Outcome("none", PyNone, NoIo, PyNone, "")
    /\ args_session = Unset

(***************************************************************************)
(* generate_response, login and cmd.                                       *)
(***************************************************************************)
\* generate_response run before login stores the new token
generate_response_before_token(usr, session, pwd) ==
    md5_hexdigest(FormatCredentials(usr, UNKNOWN_HASH, pwd))

\* generate_response leaving the session token out of the digest
generate_response_without_token(usr, session, pwd) ==
    md5_hexdigest(<<FormatValue(usr), ":", FormatValue(pwd)>>)

\* the new value of self.response
generate_response(usr, session, pwd) ==
    md5_hexdigest(FormatCredentials(usr, session, pwd))

\* login(): the new session and response, the requests posted, the answers
\* received, the levels logged, the value returned and the exception raised
login(session, resp, r1, r2) ==
    LET req1 == PyDict({<<"cmd", PyStr("login")>>})
        Result(s, h, sent, recv, logs, ret, exc) ==
            [session |-> s, response |-> h, sent |-> sent, recv |-> recv,
             logs |-> logs, ret |-> ret, exc |-> exc]
    IN  IF r1.status_code # 200
        THEN Result(session, resp, <<req1>>, <<r1>>, <<"info">>, PyNone, "")
        ELSE IF ~HasKey(r1.body, "session")
        THEN Result(session, resp, <<req1>>, <<r1>>, <<>>, PyNone, "KeyError")
        ELSE LET tok == Item(r1.body, "session")
                 hash == generate_response(user, tok, password)
                 req2 == PyDict({<<"cmd", PyStr("login")>>, <<"session", tok>>,
                                 <<"response", hash>>})
                 Result2(logs, ret, exc) ==
                     Result(tok, hash, <<req1, req2>>, <<r1, r2>>, logs, ret, exc)
             IN  IF r2.status_code # 200
                 THEN Result2(<<"info">>, PyNone, "")
                 ELSE IF ~HasKey(r2.body, "result")
                 THEN Result2(<<>>, PyNone, "KeyError")
                 ELSE IF Item(r2.body, "result") # PyStr("success")
                 THEN Result2(<<"info">>, PyNone, "")
                 ELSE IF ~HasKey(r2.body, "data")
                 THEN Result2(<<>>, PyNone, "KeyError")
                 ELSE Result2(<<>>, Item(r2.body, "data"), "")

\* cmd falling off its end when the transport status is not 200
cmd_failed_none == PyNone

\* what cmd returns when the transport status is not 200
cmd_failed == PyDict({})

\* cmd_decode answering "None" whenever there is no "data"
cmd_decode_always_none(body) ==
    IF HasKey(body, "data")
    THEN [ret |-> Item(body, "data"), exc |-> ""]
    ELSE [ret |-> PyStr("None"), exc |-> ""]

\* cmd_decode looking at "result" before "data"
cmd_decode_result_first(body) ==
    IF ~HasKey(body, "result")
    THEN [ret |-> PyNone, exc |-> "KeyError"]
    ELSE IF Item(body, "result") # PyStr("success")
    THEN [ret |-> PyStr("Error"), exc |-> ""]
    ELSE IF HasKey(body, "data")
    THEN [ret |-> Item(body, "data"), exc |-> ""]
    ELSE [ret |-> PyStr("None"), exc |-> ""]

\* what cmd makes of the body of a 200 response: the value returned and the
\* exception raised
cmd_decode(body) ==
    IF HasKey(body, "data")
    THEN [ret |-> Item(body, "data"), exc |-> ""]
    ELSE IF ~HasKey(body, "result")
    THEN [ret |-> PyNone, exc |-> "KeyError"]
    ELSE IF Item(body, "result") = PyStr("success")
    THEN [ret |-> PyStr("None"), exc |-> ""]
    ELSE [ret |-> PyStr("Error"), exc |-> ""]

\* cmd posting its request a second time when the transport status is not 200
cmd_retry(session, resp, command, params, r) ==
    LET args == PyDict(Update({<<"session", session>>, <<"response", resp>>,
                               <<"cmd", PyStr(command)>>}, params))
        Result(sent, recv, logs, ret, exc) ==
            [sent |-> sent, recv |-> recv, logs |-> logs, ret |-> ret, exc |-> exc]
    IN  IF ~JsonSerializable(args)
        THEN Result(<<>>, <<>>, <<>>, PyNone, "TypeError")
        ELSE IF r.status_code # 200
        THEN Result(<<args, args>>, <<r, r>>, <<"error", "error">>, cmd_failed, "")
        ELSE Result(<<args>>, <<r>>, <<>>, cmd_decode(r.body).ret, cmd_decode(r.body).exc)

\* cmd(cmd, params): the request posted, the answer received, the levels
\* logged, the value returned and the exception raised, when the server
\* answers r
cmd(session, resp, command, params, r) ==
    LET args == PyDict(Update({<<"session", session>>, <<"response", resp>>,
                               <<"cmd", PyStr(command)>>}, params))
        dbg == IF debug THEN <<"debug">> ELSE <<>>
        inf == IF debug THEN <<"info">> ELSE <<>>
        Result(sent, recv, logs, ret, exc) ==
            [sent |-> sent, recv |-> recv, logs |-> logs, ret |-> ret, exc |-> exc]
    IN  IF ~JsonSerializable(args)
        THEN Result(<<>>, <<>>, dbg, PyNone, "TypeError")
        ELSE IF r.status_code # 200
        THEN Result(<<args>>, <<r>>, dbg \o <<"error">>, cmd_failed, "")
        ELSE Result(<<args>>, <<r>>, dbg \o inf, cmd_decode(r.body).ret,
                    cmd_decode(r.body).exc)

\* session_info.get(key, default) in __init__
SessionInfoGet(session_info, key, default) == Get(Val(session_info), key, default)

\* __init__ from its call of login() on: login, the session attributes,
\* update_status
Construct(r1, r2, r3) ==
    /\ phase = "new"
    /\ LET l == login(blueiris_session, response, r1, r2)
           info == l.ret
           isDict == l.exc = "" /\ Tag(info) = "dict"
           s == cmd(l.session, l.response, "status", {}, r3)
           dbg == Io(<<>>, <<>>, IF debug THEN <<"info">> ELSE <<>>)
       IN  /\ blueiris_session' = l.session
           /\ response' = l.response
           /\ IF l.exc # ""
              THEN \* login raised
                   /\ phase' = "raised"
                   /\ last' = Outcome("__init__", PyNone, l, PyNone, l.exc)
                   /\ UNCHANGED <<_status, attributes>>
              ELSE IF ~isDict
              THEN \* session_info.get on a value that is no dict
                   /\ phase' = "raised"
                   /\ last' = Outcome("__init__", PyNone, ThenIo(l, dbg), PyNone,
                                      "AttributeError")
                   /\ UNCHANGED <<_status, attributes>>
              ELSE /\ _name' = SessionInfoGet(info, "system name", UNKNOWN_STRING)
                   /\ _profiles' = SessionInfoGet(info, "profiles", UNKNOWN_LIST)
                   /\ _am_admin' = SessionInfoGet(info, "admin", PyBool(FALSE))
                   /\ _ptz_allowed' = SessionInfoGet(info, "ptz", PyBool(FALSE))
                   /\ _clips_allowed' = SessionInfoGet(info, "clips", PyBool(FALSE))
                   /\ _schedules' = SessionInfoGet(info, "schedules", UNKNOWN_LIST)
                   /\ _version' = SessionInfoGet(info, "version", UNKNOWN_STRING)
                   /\ phase' = IF s.exc = "" THEN "ready" ELSE "raised"
                   /\ _status' = IF s.exc = "" THEN s.ret ELSE _status
                   /\ last' = Outcome("__init__", PyNone, ThenIo(ThenIo(l, dbg), s),
                                      PyNone, s.exc)
    /\ UNCHANGED <<caches, args_session>>

(***************************************************************************)
(* The refresh operations.  Each gives the new value of its field, with    *)
(* the requests posted, the levels logged and the exception raised.        *)
(***************************************************************************)
\* update_status merging the fields of the answer into the stored snapshot
update_status_merged(session, resp, status, r) ==
    LET c == cmd(session, resp, "status", {}, r)
    IN  [status |-> IF c.exc # "" THEN status
                    ELSE IF Tag(c.ret) = "dict" /\ Tag(status) = "dict"
                    THEN PyDict(Update(Val(status), Val(c.ret)))
                    ELSE c.ret,
         sent |-> c.sent, recv |-> c.recv, logs |-> c.logs, exc |-> c.exc]

update_status(session, resp, status, r) ==
    LET c == cmd(session, resp, "status", {}, r)
    IN  [status |-> IF c.exc = "" THEN c.ret ELSE status,
         sent |-> c.sent, recv |-> c.recv, logs |-> c.logs, exc |-> c.exc]

Min(S) == CHOOSE x \in S : \A y \in S : x <= y

\* the loop of update_camlist over a fetched value: the codes and names
\* appended until cam.get raises, if it does
CamlistLoop(camlist) ==
    LET Result(codes, names, exc) ==
            [camcodes |-> PyList(codes), camnames |-> PyList(names), exc |-> exc]
    IN  CASE Tag(camlist) = "list" ->
               LET q == Val(camlist)
                   bad == {i \in 1..Len(q) : Tag(q[i]) # "dict"}
                   n == IF bad = {} THEN Len(q) ELSE Min(bad) - 1
               IN  Result([i \in 1..n |-> Get(Val(q[i]), "optionValue", PyNone)],
                          [i \in 1..n |-> Get(Val(q[i]), "optionDisplay", PyNone)],
                          IF bad = {} THEN "" ELSE "AttributeError")
          [] Tag(camlist) = "dict" ->
               Result(<<>>, <<>>, IF Val(camlist) = {} THEN "" ELSE "AttributeError")
          [] Tag(camlist) = "str" ->
               Result(<<>>, <<>>, IF Val(camlist) = "" THEN "" ELSE "AttributeError")
          [] OTHER -> Result(<<>>, <<>>, "TypeError")

update_camlist(session, resp, camlist, camcodes, camnames, r) ==
    LET c == cmd(session, resp, "camlist", {}, r)
        loop == CamlistLoop(c.ret)
    IN  IF c.exc # ""
        THEN [camlist |-> camlist, camcodes |-> camcodes, camnames |-> camnames,
              sent |-> c.sent, recv |-> c.recv, logs |-> c.logs, exc |-> c.exc]
        ELSE [camlist |-> c.ret, camcodes |-> loop.camcodes, camnames |-> loop.camnames,
              sent |-> c.sent, recv |-> c.recv, logs |-> c.logs, exc |-> loop.exc]

update_cliplist(session, resp, cliplist, r) ==
    LET c == cmd(session, resp, "cliplist", {<<"camera", PyStr("index")>>}, r)
    IN  [value |-> IF c.exc = "" THEN c.ret ELSE cliplist,
         sent |-> c.sent, recv |-> c.recv, logs |-> c.logs, exc |-> c.exc]

update_alertlist(session, resp, alertlist, r) ==
    LET c == cmd(session, resp, "alertlist", {<<"camera", PyStr("index")>>}, r)
    IN  [value |-> IF c.exc = "" THEN c.ret ELSE alertlist,
         sent |-> c.sent, recv |-> c.recv, logs |-> c.logs, exc |-> c.exc]

update_log(session, resp, log, r) ==
    LET c == cmd(session, resp, "log", {}, r)
    IN  [value |-> IF c.exc = "" THEN c.ret ELSE log,
         sent |-> c.sent, recv |-> c.recv, logs |-> c.logs, exc |-> c.exc]

(***************************************************************************)
(* The cached accessors: the value read, the new value of the field and    *)
(* what the fetch, if any, posted, logged and raised.                      *)
(***************************************************************************)
NoFetch(value) ==
    [value |-> value, sent |-> <<>>, recv |-> <<>>, logs |-> <<>>, exc |-> ""]

log(session, resp, r) ==
    IF _log = UNKNOWN_LIST THEN update_log(session, resp, _log, r) ELSE NoFetch(_log)

all_alerts(session, resp, r) ==
    IF _alertlist = UNKNOWN_LIST
    THEN update_alertlist(session, resp, _alertlist, r)
    ELSE NoFetch(_alertlist)

all_clips(session, resp, r) ==
    IF _cliplist = UNKNOWN_LIST
    THEN update_cliplist(session, resp, _cliplist, r)
    ELSE NoFetch(_cliplist)

\* dict(zip(codes, names)): the last name given to a code wins
DictZip(codes, names) ==
    LET n == IF Len(Val(codes)) <= Len(Val(names)) THEN Len(Val(codes)) ELSE Len(Val(names))
    IN  PyDict({<<Val(codes)[i], Val(names)[i]>> :
                  i \in {j \in 1..n : \A k \in (j + 1)..n : Val(codes)[k] # Val(codes)[j]}})

cameras(session, resp, r) ==
    IF _camlist = UNKNOWN_LIST
    THEN update_camlist(session, resp, _camlist, _camcodes, _camnames, r)
    ELSE [camlist |-> _camlist, camcodes |-> _camcodes, camnames |-> _camnames,
          sent |-> <<>>, recv |-> <<>>, logs |-> <<>>, exc |-> ""]

status(session, resp, r) ==
    IF _status = UNKNOWN_DICT
    THEN update_status(session, resp, _status, r)
    ELSE [status |-> _status, sent |-> <<>>, recv |-> <<>>, logs |-> <<>>, exc |-> ""]

\* seq[index] with Python's indexing: the value, or IndexError
InRange(q, index) == 0 - Len(q) <= index /\ index < Len(q)
PyIndex(q, index) == IF index >= 0 THEN q[index + 1] ELSE q[Len(q) + index + 1]

\* the exception of int(status.get(key, -1)), "" when none
IntFieldError(st, key) ==
    IF Tag(st) # "dict" THEN "AttributeError"
    ELSE IF Tag(Get(Val(st), key, PyInt(-1))) \notin {"int", "str", "bool"} THEN "TypeError"
    ELSE IF ~ParsesAsInt(Get(Val(st), key, PyInt(-1))) THEN "ValueError"
    ELSE ""
IntField(st, key) == IntOf(Get(Val(st), key, PyInt(-1)))

\* the profile property on the status snapshot st: value returned and exception
profile(st, profiles) ==
    LET err == IntFieldError(st, "profile")
        profile_id == IntField(st, "profile")
    IN  IF err # "" THEN [ret |-> PyNone, exc |-> err]
        ELSE IF profile_id = -1 THEN [ret |-> PyStr("Undefined"), exc |-> ""]
        ELSE IF Tag(profiles) # "list" THEN [ret |-> PyNone, exc |-> "TypeError"]
        ELSE IF ~InRange(Val(profiles), profile_id) THEN [ret |-> PyNone, exc |-> "IndexError"]
        ELSE [ret |-> PyIndex(Val(profiles), profile_id), exc |-> ""]

\* the signal property on the status snapshot st
signal(st) ==
    LET err == IntFieldError(st, "signal")
        signal_id == IntField(st, "signal")
    IN  IF err # "" THEN [ret |-> PyNone, exc |-> err]
        ELSE IF signal_id = -1 THEN [ret |-> PyStr("Error"), exc |-> ""]
        ELSE IF ~\E m \in Signal : m[2] = signal_id THEN [ret |-> PyNone, exc |-> "ValueError"]
        ELSE [ret |-> PyEnum("Signal", (CHOOSE m \in Signal : m[2] = signal_id)[1]),
              exc |-> ""]

(***************************************************************************)
(* The mutating wrappers: requests posted, levels logged, exception.       *)
(***************************************************************************)
Logged(level) ==
    [sent |-> <<>>, recv |-> <<>>, logs |-> <<level>>, ret |-> PyNone, exc |-> ""]

set_signal(session, resp, sig, r) ==
    IF ~has_value(Signal, sig)
    THEN Logged("error")
    ELSE IF Tag(sig) = "str"
    THEN cmd(session, resp, "status",
             {<<"signal", MembersGet("Signal", Signal, Val(sig))>>}, r)
    ELSE cmd(session, resp, "status", {<<"signal", sig>>}, r)

set_schedule(session, resp, schedules, schedule_name, r) ==
    IF ~InList(schedule_name, schedules)
    THEN Logged("error")
    ELSE cmd(session, resp, "status", {<<"schedule", schedule_name>>}, r)

set_pofile(session, resp, profiles, profile_name, r) ==
    IF ~InList(profile_name, profiles)
    THEN Logged("error")
    ELSE cmd(session, resp, "status", {<<"profile", profile_name>>}, r)

toggle_schedule_hold(session, resp, r) ==
    cmd(session, resp, "status", {<<"schedule", PyInt(-1)>>}, r)

\* ptz without the check of the camera code
ptz_any_camera(session, resp, camcodes, camera_code, ptz_action, r) ==
    IF ~has_value(PTZCommand, ptz_action)
    THEN Logged("error")
    ELSE IF Tag(ptz_action) = "str"
    THEN cmd(session, resp, "ptz",
             {<<"camera", camera_code>>,
              <<"button", MembersGet("PTZCommand", PTZCommand, Val(ptz_action))>>,
              <<"updown", PyInt(0)>>}, r)
    ELSE cmd(session, resp, "ptz",
             {<<"camera", camera_code>>, <<"button", ptz_action>>,
              <<"updown", PyInt(0)>>}, r)

ptz(session, resp, camcodes, camera_code, ptz_action, r) ==
    IF ~InList(camera_code, camcodes)
    THEN Logged("error")
    ELSE IF ~has_value(PTZCommand, ptz_action)
    THEN Logged("error")
    ELSE IF Tag(ptz_action) = "str"
    THEN cmd(session, resp, "ptz",
             {<<"camera", camera_code>>,
              <<"button", MembersGet("PTZCommand", PTZCommand, Val(ptz_action))>>,
              <<"updown", PyInt(0)>>}, r)
    ELSE cmd(session, resp, "ptz",
             {<<"camera", camera_code>>, <<"button", ptz_action>>,
              <<"updown", PyInt(0)>>}, r)

\* trigger checking the camera code before the admin flag
trigger_camera_first(session, resp, am_admin, camcodes, camera_code, r) ==
    IF ~InList(camera_code, camcodes)
    THEN Logged("error")
    ELSE IF ~Truthy(am_admin)
    THEN Logged("warning")
    ELSE cmd(session, resp, "trigger", {<<"camera", camera_code>>}, r)

trigger(session, resp, am_admin, camcodes, camera_code, r) ==
    IF ~Truthy(am_admin)
    THEN Logged("warning")
    ELSE IF ~InList(camera_code, camcodes)
    THEN Logged("error")
    ELSE cmd(session, resp, "trigger", {<<"camera", camera_code>>}, r)

logout(session, resp, r) == cmd(session, resp, "logout", {}, r)

(***************************************************************************)
(* The caller's inputs.                                                    *)
(***************************************************************************)
SignalArgs ==
    {PyStr(n) : n \in {"RED", "GREEN", "YELLOW", "BLUE"}} \cup {PyInt(i) : i \in -1..3}
ScheduleArgs == {PyStr("Default"), PyStr("Vacation")}
ProfileArgs == {PyStr("Day"), PyStr("Night"), PyStr("Dusk")}
\* the camera after the last one the server may list is never a valid code
CameraArgs == {PyStr(CamCode(i)) : i \in 1..(MaxCams + 1)}
PtzArgs == {PyStr("PAN_LEFT"), PyStr("SPIN"), PyInt(0), PyInt(7), PyInt(120)}
\* parameters the caller passes to cmd: none, one of the command's own, and
\* ones whose key collides with a key of the envelope
CmdParams ==
    {{}, {<<"signal", PyInt(1)>>},
     {<<"cmd", PyStr("camlist")>>, <<"camera", PyStr("index")>>}}
\* answers to the command of a wrapper, which discards the value cmd returns
WrapperResponses ==
    {HttpError,
     Response(200, {}),
     Response(200, {<<"result", PyStr("success")>>}),
     Response(200, {<<"result", PyStr("success")>>,
                    <<"data", PyDict({<<"signal", PyInt(1)>>})>>})}

(***************************************************************************)
(* The caller's calls on a constructed client.                             *)
(***************************************************************************)
Call_login(r1, r2) ==
    /\ phase = "ready"
    /\ LET l == login(blueiris_session, response, r1, r2)
       IN  /\ blueiris_session' = l.session
           /\ response' = l.response
           /\ last' = Outcome("login", PyNone, l, l.ret, l.exc)
    /\ UNCHANGED <<phase, args_session, _status, caches, attributes>>

Call_cmd(params, r) ==
    /\ phase = "ready"
    /\ LET c == cmd(blueiris_session, response, "status", params, r)
       IN  last' = Outcome("cmd", PyDict(params), c, c.ret, c.exc)
    /\ UNCHANGED <<phase, args_session, credentials, _status, caches, attributes>>

Call_update_status(r) ==
    /\ phase = "ready"
    /\ LET u == update_status(blueiris_session, response, _status, r)
       IN  /\ _status' = u.status
           /\ last' = Outcome("update_status", PyNone, u, PyNone, u.exc)
    /\ UNCHANGED <<phase, args_session, credentials, caches, attributes>>

Call_update_camlist(r) ==
    /\ phase = "ready"
    /\ LET u == update_camlist(blueiris_session, response, _camlist, _camcodes, _camnames, r)
       IN  /\ _camlist' = u.camlist
           /\ _camcodes' = u.camcodes
           /\ _camnames' = u.camnames
           /\ last' = Outcome("update_camlist", PyNone, u, PyNone, u.exc)
    /\ UNCHANGED <<phase, args_session, credentials, _status, _alertlist, _cliplist, _log, attributes>>

Call_update_cliplist(r) ==
    /\ phase = "ready"
    /\ LET u == update_cliplist(blueiris_session, response, _cliplist, r)
       IN  /\ _cliplist' = u.value
           /\ last' = Outcome("update_cliplist", PyNone, u, PyNone, u.exc)
    /\ UNCHANGED <<phase, args_session, credentials, _status, _camlist, _camcodes, _camnames,
                   _alertlist, _log, attributes>>

Call_update_alertlist(r) ==
    /\ phase = "ready"
    /\ LET u == update_alertlist(blueiris_session, response, _alertlist, r)
       IN  /\ _alertlist' = u.value
           /\ last' = Outcome("update_alertlist", PyNone, u, PyNone, u.exc)
    /\ UNCHANGED <<phase, args_session, credentials, _status, _camlist, _camcodes, _camnames,
                   _cliplist, _log, attributes>>

Call_update_log(r) ==
    /\ phase = "ready"
    /\ LET u == update_log(blueiris_session, response, _log, r)
       IN  /\ _log' = u.value
           /\ last' = Outcome("update_log", PyNone, u, PyNone, u.exc)
    /\ UNCHANGED <<phase, args_session, credentials, _status, _camlist, _camcodes, _camnames,
                   _alertlist, _cliplist, attributes>>

Read_log(r) ==
    /\ phase = "ready"
    /\ LET a == log(blueiris_session, response, r)
       IN  /\ _log' = a.value
           /\ last' = Outcome("log", PyNone, a,
                              IF a.exc = "" THEN a.value ELSE PyNone, a.exc)
    /\ UNCHANGED <<phase, args_session, credentials, _status, _camlist, _camcodes, _camnames,
                   _alertlist, _cliplist, attributes>>

Read_all_alerts(r) ==
    /\ phase = "ready"
    /\ LET a == all_alerts(blueiris_session, response, r)
       IN  /\ _alertlist' = a.value
           /\ last' = Outcome("all_alerts", PyNone, a,
                              IF a.exc = "" THEN a.value ELSE PyNone, a.exc)
    /\ UNCHANGED <<phase, args_session, credentials, _status, _camlist, _camcodes, _camnames,
                   _cliplist, _log, attributes>>

Read_all_clips(r) ==
    /\ phase = "ready"
    /\ LET a == all_clips(blueiris_session, response, r)
       IN  /\ _cliplist' = a.value
           /\ last' = Outcome("all_clips", PyNone, a,
                              IF a.exc = "" THEN a.value ELSE PyNone, a.exc)
    /\ UNCHANGED <<phase, args_session, credentials, _status, _camlist, _camcodes, _camnames,
                   _alertlist, _log, attributes>>

Read_cameras(r) ==
    /\ phase = "ready"
    /\ LET a == cameras(blueiris_session, response, r)
       IN  /\ _camlist' = a.camlist
           /\ _camcodes' = a.camcodes
           /\ _camnames' = a.camnames
           /\ last' = Outcome("cameras", PyNone, a,
                              IF a.exc = "" THEN DictZip(a.camcodes, a.camnames) ELSE PyNone,
                              a.exc)
    /\ UNCHANGED <<phase, args_session, credentials, _status, _alertlist, _cliplist, _log, attributes>>

Read_status(r) ==
    /\ phase = "ready"
    /\ LET a == status(blueiris_session, response, r)
       IN  /\ _status' = a.status
           /\ last' = Outcome("status", PyNone, a,
                              IF a.exc = "" THEN a.status ELSE PyNone, a.exc)
    /\ UNCHANGED <<phase, args_session, credentials, caches, attributes>>

Read_profile(r) ==
    /\ phase = "ready"
    /\ LET a == status(blueiris_session, response, r)
           p == profile(a.status, _profiles)
       IN  /\ _status' = a.status
           /\ last' = IF a.exc # ""
                      THEN Outcome("profile", PyNone, a, PyNone, a.exc)
                      ELSE Outcome("profile", PyNone, a, p.ret, p.exc)
    /\ UNCHANGED <<phase, args_session, credentials, caches, attributes>>

Read_signal(r) ==
    /\ phase = "ready"
    /\ LET a == status(blueiris_session, response, r)
           s == signal(a.status)
       IN  /\ _status' = a.status
           /\ last' = IF a.exc # ""
                      THEN Outcome("signal", PyNone, a, PyNone, a.exc)
                      ELSE Outcome("signal", PyNone, a, s.ret, s.exc)
    /\ UNCHANGED <<phase, args_session, credentials, caches, attributes>>

\* a wrapper assigns no field: only its outcome is recorded
fields == <<phase, args_session, credentials, _status, caches, attributes>>

Call_set_signal(sig, r) ==
    /\ phase = "ready"
    /\ LET c == set_signal(blueiris_session, response, sig, r)
       IN  last' = Outcome("set_signal", sig, c, PyNone, c.exc)
    /\ UNCHANGED fields

Call_set_schedule(schedule_name, r) ==
    /\ phase = "ready"
    /\ LET c == set_schedule(blueiris_session, response, _schedules, schedule_name, r)
       IN  last' = Outcome("set_schedule", schedule_name, c, PyNone, c.exc)
    /\ UNCHANGED fields

Call_set_pofile(profile_name, r) ==
    /\ phase = "ready"
    /\ LET c == set_pofile(blueiris_session, response, _profiles, profile_name, r)
       IN  last' = Outcome("set_pofile", profile_name, c, PyNone, c.exc)
    /\ UNCHANGED fields

Call_toggle_schedule_hold(r) ==
    /\ phase = "ready"
    /\ LET c == toggle_schedule_hold(blueiris_session, response, r)
       IN  last' = Outcome("toggle_schedule_hold", PyNone, c, PyNone, c.exc)
    /\ UNCHANGED fields

Call_ptz(camera_code, ptz_action, r) ==
    /\ phase = "ready"
    /\ LET c == ptz(blueiris_session, response, _camcodes, camera_code, ptz_action, r)
       IN  last' = Outcome("ptz", PyList(<<camera_code, ptz_action>>), c, PyNone, c.exc)
    /\ UNCHANGED fields

Call_trigger(camera_code, r) ==
    /\ phase = "ready"
    /\ LET c == trigger(blueiris_session, response, _am_admin, _camcodes, camera_code, r)
       IN  last' = Outcome("trigger", camera_code, c, PyNone, c.exc)
    /\ UNCHANGED fields

Call_logout(r) ==
    /\ phase = "ready"
    /\ LET c == logout(blueiris_session, response, r)
       IN  last' = Outcome("logout", PyNone, c, PyNone, c.exc)
    /\ UNCHANGED fields

(***************************************************************************)
(* Specifications.  The caches of the client are independent of each       *)
(* other, so each specification has the caller use one part of the client: *)
(* Spec the session, the status snapshot and the status wrappers,          *)
(* SpecCameras the camera list and all the wrappers, SpecCaches the four   *)
(* cached lists and their refreshes, SpecTransport every refresh and       *)
(* wrapper against a server whose transport may fail.                      *)
(***************************************************************************)
Next ==
    \/ \E r1 \in LoginResponses1, r2 \in LoginResponses2, r3 \in StatusResponses :
          Construct(r1, r2, r3)
    \/ \E r1 \in LoginResponses1, r2 \in LoginResponses2 : Call_login(r1, r2)
    \/ \E params \in CmdParams, r \in AnyResponses : Call_cmd(params, r)
    \/ \E r \in StatusResponses : Call_update_status(r)
    \/ \E r \in StatusResponses : Read_status(r)
    \/ \E r \in StatusResponses : Read_profile(r)
    \/ \E r \in StatusResponses : Read_signal(r)
    \/ \E sig \in SignalArgs, r \in WrapperResponses : Call_set_signal(sig, r)
    \/ \E name \in ScheduleArgs, r \in WrapperResponses : Call_set_schedule(name, r)
    \/ \E name \in ProfileArgs, r \in WrapperResponses : Call_set_pofile(name, r)
    \/ \E r \in WrapperResponses : Call_toggle_schedule_hold(r)
    \/ \E r \in WrapperResponses : Call_logout(r)

Spec == Init /\ [][Next]_vars

\* answers of a server that accepts the login and reports a status
GoodLogin1 == {Response(200, {<<"session", tok>>}) : tok \in Tokens}
GoodLogin2 ==
    {Response(200, {<<"result", PyStr("success")>>, <<"data", d>>}) : d \in SessionInfos}
GoodStatus ==
    Response(200, {<<"result", PyStr("success")>>,
                   <<"data", PyDict({<<"profile", PyInt(0)>>, <<"signal", PyInt(0)>>})>>})

NextCameras ==
    \/ \E r1 \in GoodLogin1, r2 \in GoodLogin2 : Construct(r1, r2, GoodStatus)
    \/ \E r \in CamlistResponses : Call_update_camlist(r)
    \/ \E r \in CamlistResponses : Read_cameras(r)
    \/ \E sig \in SignalArgs, r \in WrapperResponses : Call_set_signal(sig, r)
    \/ \E name \in ScheduleArgs, r \in WrapperResponses : Call_set_schedule(name, r)
    \/ \E name \in ProfileArgs, r \in WrapperResponses : Call_set_pofile(name, r)
    \/ \E r \in WrapperResponses : Call_toggle_schedule_hold(r)
    \/ \E cam \in CameraArgs, act \in PtzArgs, r \in WrapperResponses :
          Call_ptz(cam, act, r)
    \/ \E cam \in CameraArgs, r \in WrapperResponses : Call_trigger(cam, r)

SpecCameras == Init /\ [][NextCameras]_vars

NextCaches ==
    \/ \E r1 \in GoodLogin1, r2 \in GoodLogin2 : Construct(r1, r2, GoodStatus)
    \/ \E r \in CamlistResponses : Call_update_camlist(r)
    \/ \E r \in ListResponses : Call_update_cliplist(r)
    \/ \E r \in ListResponses : Call_update_alertlist(r)
    \/ \E r \in ListResponses : Call_update_log(r)
    \/ \E r \in ListResponses : Read_log(r)
    \/ \E r \in ListResponses : Read_all_alerts(r)
    \/ \E r \in ListResponses : Read_all_clips(r)
    \/ \E r \in CamlistResponses : Read_cameras(r)

SpecCaches == Init /\ [][NextCaches]_vars

\* answers of a server whose transport fails or that answers well
FlakyStatus == {HttpError, GoodStatus}
FlakyCamlist ==
    {HttpError,
     Response(200, {<<"result", PyStr("success")>>,
                    <<"data", PyList([i \in 1..MaxCams |-> CamRecord(i)])>>})}
FlakyList ==
    {HttpError,
     Response(200, {<<"result", PyStr("success")>>,
                    <<"data", PyList(<<PyDict({<<"path", PyStr("@1.bvr")>>})>>)>>})}

NextTransport ==
    \/ \E r1 \in GoodLogin1, r3 \in FlakyStatus :
          Construct(r1, Response(200, {<<"result", PyStr("success")>>,
                                       <<"data", FullSessionInfo>>}), r3)
    \/ \E params \in CmdParams, r \in FlakyStatus : Call_cmd(params, r)
    \/ \E r \in FlakyStatus : Call_update_status(r)
    \/ \E r \in FlakyCamlist : Call_update_camlist(r)
    \/ \E r \in FlakyList : Call_update_cliplist(r)
    \/ \E r \in FlakyList : Call_update_alertlist(r)
    \/ \E r \in FlakyList : Call_update_log(r)
    \/ \E sig \in SignalArgs, r \in FlakyStatus : Call_set_signal(sig, r)
    \/ \E name \in ScheduleArgs, r \in FlakyStatus : Call_set_schedule(name, r)
    \/ \E name \in ProfileArgs, r \in FlakyStatus : Call_set_pofile(name, r)
    \/ \E r \in FlakyStatus : Call_toggle_schedule_hold(r)
    \/ \E cam \in CameraArgs, act \in PtzArgs, r \in FlakyStatus : Call_ptz(cam, act, r)
    \/ \E cam \in CameraArgs, r \in FlakyStatus : Call_trigger(cam, r)
    \/ \E r \in FlakyStatus : Call_logout(r)

SpecTransport == Init /\ [][NextTransport]_vars

(***************************************************************************)
(* Two callers on one client, without a lock: one thread runs login() and  *)
(* another dispatches commands.  login() assigns the session token and     *)
(* the response hash in two statements, and a thread switch may fall       *)
(* between them; phase "in_login" is the client between the two            *)
(* assignments.  cmd reads the two fields one after the other when it      *)
(* builds its envelope; args_session is the session token the dispatching  *)
(* thread has read and not yet posted, Unset when it is not in cmd.        *)
(***************************************************************************)
\* login() up to the assignment of the session token; a login whose first
\* request fails ends here
Login_StoreToken(r1) ==
    /\ phase = "ready"
    /\ LET l == login(blueiris_session, response, r1, HttpError)
       IN  IF r1.status_code = 200 /\ HasKey(r1.body, "session")
           THEN /\ blueiris_session' = Item(r1.body, "session")
                /\ response' = response
                /\ phase' = "in_login"
                /\ last' = Outcome("login_token", PyNone, Io(<<l.sent[1]>>, <<r1>>, <<>>),
                                   PyNone, "")
           ELSE /\ blueiris_session' = l.session
                /\ response' = l.response
                /\ phase' = "ready"
                /\ last' = Outcome("login", PyNone, l, l.ret, l.exc)
    /\ UNCHANGED <<_status, caches, attributes, args_session>>

\* login() from generate_response on: the hash of the stored token, the
\* authenticated request and the return
Login_StoreHash(r2) ==
    /\ phase = "in_login"
    /\ LET l == login(blueiris_session, response,
                      Response(200, {<<"session", blueiris_session>>}), r2)
       IN  /\ blueiris_session' = l.session
           /\ response' = l.response
           /\ last' = Outcome("login", PyNone, l, l.ret, l.exc)
    /\ phase' = "ready"
    /\ UNCHANGED <<_status, caches, attributes, args_session>>

\* cmd in the other thread: the read of self.blueiris_session for the envelope
Dispatch_read_session ==
    /\ phase \in {"ready", "in_login"}
    /\ args_session = Unset
    /\ args_session' = blueiris_session
    /\ UNCHANGED <<phase, credentials, _status, caches, attributes, last>>

\* cmd in the other thread from the read of self.response on: the envelope
\* with the token read before, the request and the return
Dispatch_post(params, r) ==
    /\ phase \in {"ready", "in_login"}
    /\ args_session # Unset
    /\ LET c == cmd(args_session, response, "status", params, r)
       IN  last' = Outcome("cmd", PyDict(params), c, c.ret, c.exc)
    /\ args_session' = Unset
    /\ UNCHANGED <<phase, credentials, _status, caches, attributes>>

NextRace ==
    \/ \E r1 \in GoodLogin1, r2 \in GoodLogin2 : Construct(r1, r2, GoodStatus)
    \/ \E r1 \in LoginResponses1 : Login_StoreToken(r1)
    \/ \E r2 \in LoginResponses2 : Login_StoreHash(r2)
    \/ Dispatch_read_session
    \/ \E params \in CmdParams, r \in AnyResponses : Dispatch_post(params, r)

SpecRace == Init /\ [][NextRace]_vars

(***************************************************************************)
(* Properties.                                                             *)
(***************************************************************************)
HasLog(level) == \E i \in 1..Len(last.logs) : last.logs[i] = level

ValidSignals ==
    {PyStr("RED"), PyStr("GREEN"), PyStr("YELLOW"), PyInt(0), PyInt(1), PyInt(2)}

KnownPtzAction(act) ==
    \/ Tag(act) = "str" /\ \E m \in PTZCommand : m[1] = Val(act)
    \/ Tag(act) = "int" /\ \E m \in PTZCommand : m[2] = Val(act)

\* the last call was a wrapper given an input outside its enumeration or
\* cached list
InvalidInput ==
    \/ last.op = "set_signal" /\ last.arg \notin ValidSignals
    \/ last.op = "set_schedule" /\ ~InList(last.arg, _schedules)
    \/ last.op = "set_pofile" /\ ~InList(last.arg, _profiles)
    \/ last.op = "ptz" /\ \/ ~InList(Val(last.arg)[1], _camcodes)
                          \/ ~KnownPtzAction(Val(last.arg)[2])
    \/ last.op = "trigger" /\ ~InList(last.arg, _camcodes)

\* C1 as stated: a wrapper given an input outside its enumeration or cached
\* list posts no command and logs an error.
C1_InvalidInputLogsError ==
    InvalidInput => last.sent = <<>> /\ HasLog("error")

\* C1 amended: a wrapper given an input outside its enumeration or cached list
\* posts no command, raises nothing and logs one error; except trigger on a
\* session without the admin flag, which logs one warning instead.
C1_InvalidInputNoCommand ==
    InvalidInput =>
        /\ last.sent = <<>>
        /\ last.exc = ""
        /\ last.logs = IF last.op = "trigger" /\ ~Truthy(_am_admin)
                       THEN <<"warning">> ELSE <<"error">>

\* ptz was given a listed camera and an action outside PTZCommand
C1_Witness ==
    /\ last.op = "ptz"
    /\ InList(Val(last.arg)[1], _camcodes)
    /\ Val(last.arg)[2] = PyInt(7)
    /\ last.sent = <<>>
    /\ last.logs = <<"error">>

\* one of the two login round trips of the last call failed
LoginFailed ==
    /\ Len(last.recv) >= 1
    /\ \/ last.recv[1].status_code # 200
       \/ /\ Len(last.recv) >= 2
          /\ \/ last.recv[2].status_code # 200
             \/ /\ HasKey(last.recv[2].body, "result")
                /\ Item(last.recv[2].body, "result") # PyStr("success")

\* C2: when a login round trip fails, constructing the client completes
\* without an exception and leaves a client the caller can inspect.
C2_FailedLoginNeverRaises ==
    (last.op = "__init__" /\ LoginFailed) => (last.exc = "" /\ phase = "ready")

CachedAccessors == {"cameras", "all_alerts", "all_clips", "log"}

\* C3: two consecutive reads of one cached accessor, with no refresh in
\* between, post at most one fetch command in total.
C3_OneFetchPerTwoReads ==
    [][(last.op \in CachedAccessors /\ last'.op = last.op)
          => Len(last.sent) + Len(last'.sent) <= 1]_vars

\* the last call's first login request was answered with a token and its
\* authenticated request with a result other than "success"
AuthenticationFailed(o) ==
    /\ o.op = "login"
    /\ Len(o.recv) = 2
    /\ o.recv[1].status_code = 200
    /\ o.recv[2].status_code = 200
    /\ HasKey(o.recv[2].body, "result")
    /\ Item(o.recv[2].body, "result") # PyStr("success")

\* C4: a login that fails authentication leaves the stored session token and
\* response hash as they were before the call.
C4_AuthFailureKeepsSession ==
    [][AuthenticationFailed(last')
          => (blueiris_session' = blueiris_session /\ response' = response)]_vars

\* the hash h is the digest of "{user}:{token}:{password}" for the token s, or
\* both are still unknown
HashOfToken(s, h) ==
    \/ s = UNKNOWN_HASH /\ h = UNKNOWN_HASH
    \/ h = md5_hexdigest(<<FormatValue(user), ":", FormatValue(s), ":",
                           FormatValue(password)>>)

\* C5: the stored response hash is always the digest of the stored session
\* token, and so is the hash of every request that carries a session token.
C5_HashMatchesToken ==
    /\ HashOfToken(blueiris_session, response)
    /\ \A i \in 1..Len(last.sent) :
          HasKey(Val(last.sent[i]), "session")
             => HashOfToken(Item(Val(last.sent[i]), "session"),
                            Item(Val(last.sent[i]), "response"))

\* a login on a constructed client was answered with the second token and
\* posted the authenticated request
C5_Witness ==
    /\ last.op = "login"
    /\ Len(last.sent) = 2
    /\ blueiris_session = PyStr(TokenName(2))
    /\ Item(Val(last.sent[2]), "session") = blueiris_session
    /\ response # UNKNOWN_HASH

\* the numeric code of a signal given by name or by code
SignalCode(sig) ==
    CASE sig = PyStr("RED") -> 0
      [] sig = PyStr("GREEN") -> 1
      [] sig = PyStr("YELLOW") -> 2
      [] OTHER -> Val(sig)

\* C6: set_signal with a valid name or code posts exactly one "status"
\* command whose signal parameter is the numeric code of the signal.
C6_ValidSignalOneCommand ==
    (last.op = "set_signal" /\ last.arg \in ValidSignals) =>
        /\ Len(last.sent) = 1
        /\ Item(Val(last.sent[1]), "cmd") = PyStr("status")
        /\ Item(Val(last.sent[1]), "signal") = PyInt(SignalCode(last.arg))

\* the caller's cmd got a 200 answer
CmdAnswered == last.op = "cmd" /\ Len(last.recv) = 1 /\ last.recv[1].status_code = 200
CmdBody == last.recv[1].body

\* C7: for a 200 answer without "data", cmd returns "None" when "result" is
\* "success" and "Error" for any other result value.
C7_NoDataSentinels ==
    (CmdAnswered /\ ~HasKey(CmdBody, "data") /\ HasKey(CmdBody, "result")) =>
        /\ last.exc = ""
        /\ last.ret = IF Item(CmdBody, "result") = PyStr("success")
                      THEN PyStr("None") ELSE PyStr("Error")

\* cmd got a 200 answer with result "fail" and no data and returned "Error"
C7_Witness ==
    /\ CmdAnswered
    /\ ~HasKey(CmdBody, "data")
    /\ HasKey(CmdBody, "result")
    /\ Item(CmdBody, "result") = PyStr("fail")
    /\ last.ret = PyStr("Error")

\* C8: for a 200 answer with "data", cmd returns that payload, whatever the
\* result.
C8_DataReturnedVerbatim ==
    (CmdAnswered /\ HasKey(CmdBody, "data")) =>
        (last.exc = "" /\ last.ret = Item(CmdBody, "data"))

\* cmd returned an array payload that came with a result other than "success"
C8_Witness ==
    /\ CmdAnswered
    /\ HasKey(CmdBody, "data")
    /\ Item(CmdBody, "result") = PyStr("fail")
    /\ last.ret = PyList(<<PyStr("a"), PyInt(1)>>)

\* the command of the last call was answered with a non-success status
TransportFailed ==
    /\ last.op \notin {"none", "login"}
    /\ last.recv # <<>>
    /\ last.recv[Len(last.recv)].status_code # 200

\* C9: when the command is answered with a non-success status, cmd logs an
\* error and returns an empty dict, and the call built on it raises nothing:
\* a refresh stores the empty result, the constructor completes.
C9_TransportFailureAbsorbed ==
    TransportFailed =>
        /\ last.exc = ""
        /\ HasLog("error")
        /\ phase = "ready"
        /\ last.op = "cmd" => last.ret = PyDict({})
        /\ last.op \in {"update_status", "__init__"} => _status = PyDict({})
        /\ last.op = "update_camlist" =>
              (_camlist = PyDict({}) /\ _camcodes = PyList(<<>>) /\ _camnames = PyList(<<>>))
        /\ last.op = "update_cliplist" => _cliplist = PyDict({})
        /\ last.op = "update_alertlist" => _alertlist = PyDict({})
        /\ last.op = "update_log" => _log = PyDict({})

\* update_camlist met a transport failure after a list had been fetched
C9_Witness ==
    /\ last.op = "update_camlist"
    /\ TransportFailed
    /\ _camlist = PyDict({})
    /\ _cliplist # UNKNOWN_LIST

\* the last call read profile and its status snapshot is a dict
ProfileRead ==
    /\ last.op = "profile"
    /\ last.exc # "KeyError"
    /\ Tag(_status) = "dict"
ProfileId ==
    IF HasKey(Val(_status), "profile") THEN IntOf(Item(Val(_status), "profile")) ELSE 0 - 1

\* C10: profile returns "Undefined" when the snapshot's profile id is -1 or
\* missing, and the entry of the cached profile list at the id otherwise.
C10_ProfileResolved ==
    ProfileRead =>
        IF ProfileId = 0 - 1
        THEN last.exc = "" /\ last.ret = PyStr("Undefined")
        ELSE /\ last.exc = ""
             /\ ProfileId \in 0..(Len(Val(_profiles)) - 1)
             /\ last.ret = Val(_profiles)[ProfileId + 1]

\* the call o went through both login round trips and the authenticated
\* request was answered with result "success" and a data payload
HandshakeSucceeded(o) ==
    /\ o.op \in {"__init__", "login"}
    /\ Len(o.recv) >= 2
    /\ o.recv[1].status_code = 200
    /\ o.recv[2].status_code = 200
    /\ HasKey(o.recv[2].body, "result")
    /\ Item(o.recv[2].body, "result") = PyStr("success")
    /\ HasKey(o.recv[2].body, "data")
\* the data payload of the last handshake
SessionPayload == Val(Item(last.recv[2].body, "data"))

\* C11: after a successful login handshake the session attributes hold the
\* values of the data payload, and the default for each field the payload
\* lacks.
C11_SessionStateIsPayload ==
    HandshakeSucceeded(last) =>
        /\ _name = Get(SessionPayload, "system name", UNKNOWN_STRING)
        /\ _profiles = Get(SessionPayload, "profiles", UNKNOWN_LIST)
        /\ _schedules = Get(SessionPayload, "schedules", UNKNOWN_LIST)
        /\ _am_admin = Get(SessionPayload, "admin", PyBool(FALSE))
        /\ _ptz_allowed = Get(SessionPayload, "ptz", PyBool(FALSE))
        /\ _clips_allowed = Get(SessionPayload, "clips", PyBool(FALSE))
        /\ _version = Get(SessionPayload, "version", UNKNOWN_STRING)

\* the member of Signal the claimed ordinal mapping gives to a signal id
SignalMember(id) ==
    CASE id = 0 -> PyEnum("Signal", "RED")
      [] id = 1 -> PyEnum("Signal", "GREEN")
      [] id = 2 -> PyEnum("Signal", "YELLOW")

\* the last call read signal on a snapshot whose signal id is 0, 1 or 2
SignalRead ==
    /\ last.op = "signal"
    /\ Tag(_status) = "dict"
    /\ HasKey(Val(_status), "signal")
    /\ Item(Val(_status), "signal") \in {PyInt(0), PyInt(1), PyInt(2)}

\* C12: signal maps the ids 0, 1, 2 of the snapshot to RED, GREEN, YELLOW, and
\* set_signal sends a name under the same mapping: the code it sends for a
\* name, reported back in a snapshot, reads back as the member of that name.
C12_SignalRoundTrip ==
    /\ SignalRead =>
          (last.exc = "" /\ last.ret = SignalMember(Val(Item(Val(_status), "signal"))))
    /\ (last.op = "set_signal" /\ last.arg \in {PyStr("RED"), PyStr("GREEN"), PyStr("YELLOW")}) =>
          /\ Len(last.sent) = 1
          /\ HasKey(Val(last.sent[1]), "signal")
          /\ signal(PyDict({<<"signal", Item(Val(last.sent[1]), "signal")>>})).ret
                = PyEnum("Signal", Val(last.arg))

\* the envelope cmd builds for the command "status" from the stored
\* credentials
Envelope ==
    {<<"session", blueiris_session>>, <<"response", response>>, <<"cmd", PyStr("status")>>}

\* C13: the request of cmd holds every caller parameter, every envelope field
\* whose key the caller did not pass, and nothing else (nothing of an earlier
\* call); the requests of the refreshes and wrappers carry the stored session
\* token and response hash.
C13_EnvelopeMerged ==
    /\ last.op = "cmd" =>
          /\ Len(last.sent) = 1
          /\ \A kv \in Val(last.arg) : kv \in Val(last.sent[1])
          /\ \A kv \in Envelope : HasKey(Val(last.arg), kv[1]) \/ kv \in Val(last.sent[1])
          /\ \A kv \in Val(last.sent[1]) : kv \in Val(last.arg) \/ kv \in Envelope
          /\ \A kv1, kv2 \in Val(last.sent[1]) : kv1[1] = kv2[1] => kv1 = kv2
    /\ last.op \notin {"none", "cmd", "login", "__init__"} =>
          \A i \in 1..Len(last.sent) :
              /\ <<"session", blueiris_session>> \in Val(last.sent[i])
              /\ <<"response", response>> \in Val(last.sent[i])
              /\ HasKey(Val(last.sent[i]), "cmd")

\* cmd was called with a parameter named "cmd" on a session that holds the
\* second token: the request carries the caller's command name and that token
C13_Witness ==
    /\ last.op = "cmd"
    /\ HasKey(Val(last.arg), "cmd")
    /\ Len(last.sent) = 1
    /\ <<"cmd", PyStr("camlist")>> \in Val(last.sent[1])
    /\ <<"session", PyStr(TokenName(2))>> \in Val(last.sent[1])
    /\ <<"camera", PyStr("index")>> \in Val(last.sent[1])

\* C14: no request is posted twice.  cmd posts exactly one request whatever
\* the answer, and so does a refresh; login posts two requests when the first
\* is answered 200 with a session token and one otherwise; no other call
\* posts more than one.
C14_NoRetry ==
    /\ Len(last.recv) = Len(last.sent)
    /\ last.op \in {"cmd", "update_status"} => Len(last.sent) = 1
    /\ last.op = "login" =>
          Len(last.sent) = IF /\ last.recv[1].status_code = 200
                              /\ HasKey(last.recv[1].body, "session")
                           THEN 2 ELSE 1
    /\ last.op = "__init__" => Len(last.sent) \in 1..3
    /\ last.op \notin {"cmd", "update_status", "login", "__init__"} => Len(last.sent) <= 1

\* cmd was answered with a non-success status and posted its request once
C14_Witness ==
    /\ last.op = "cmd"
    /\ Len(last.sent) = 1
    /\ last.recv[1].status_code # 200
    /\ last.logs = <<"error">>

\* the value the "status" command returns for the answer r
StatusReturned(r) ==
    IF r.status_code # 200 THEN PyDict({})
    ELSE IF HasKey(r.body, "data") THEN Item(r.body, "data")
    ELSE IF Item(r.body, "result") = PyStr("success") THEN PyStr("None")
    ELSE PyStr("Error")
\* the answer r has neither "data" nor "result": cmd raises before anything
\* is assigned
StatusRaised(r) ==
    r.status_code = 200 /\ ~HasKey(r.body, "data") /\ ~HasKey(r.body, "result")

StatusWrappers == {"set_signal", "set_schedule", "set_pofile", "toggle_schedule_hold"}
StatusAccessors == {"status", "profile", "signal"}

\* C15: a refresh stores exactly the value its "status" command returned, with
\* nothing of the previous snapshot; the wrappers leave the snapshot alone;
\* an accessor reports from the stored snapshot, and fetches (a refresh by
\* update_status) only when the snapshot equals UNKNOWN_DICT.
C15_SnapshotReplacedWholesale ==
    [][/\ last'.op = "update_status" =>
             _status' = IF StatusRaised(last'.recv[1]) THEN _status
                        ELSE StatusReturned(last'.recv[1])
       /\ last'.op \in StatusWrappers => _status' = _status
       /\ (last'.op \in StatusAccessors /\ last'.sent = <<>>) =>
             /\ _status # UNKNOWN_DICT
             /\ _status' = _status
             /\ last'.op = "status" => last'.ret = _status
             /\ last'.op = "profile" => last'.ret = profile(_status, _profiles).ret
             /\ last'.op = "signal" => last'.ret = signal(_status).ret
       /\ (last'.op \in StatusAccessors /\ last'.sent # <<>>) =>
             /\ _status = UNKNOWN_DICT
             /\ _status' = IF StatusRaised(last'.recv[1]) THEN _status
                           ELSE StatusReturned(last'.recv[1])]_vars

\* set_signal(2) was answered with a status payload that reports signal 1,
\* and the stored snapshot still reports signal 0
C15_Witness ==
    /\ last.op = "set_signal"
    /\ last.arg = PyInt(2)
    /\ Len(last.sent) = 1
    /\ HasKey(last.recv[1].body, "data")
    /\ Item(last.recv[1].body, "data") = PyDict({<<"signal", PyInt(1)>>})
    /\ _status = PyDict({<<"profile", PyInt(0)>>, <<"signal", PyInt(0)>>})

\* the camera code given to the ptz or trigger call o
CameraOf(o) == IF o.op = "ptz" THEN Val(o.arg)[1] ELSE o.arg
\* no camera list has been fetched: the fields are as __init__ set them
NoCamlistFetched == _camlist = UNKNOWN_LIST /\ _camcodes = PyList(<<>>)

\* C16: ptz and trigger post a command only for a camera code in the stored
\* camera codes, post nothing but their own command and assign no camera
\* field; the stored codes are empty after construction and change only in a
\* camera-list fetch, so before any fetch ptz and trigger post nothing.
C16_CameraCommandsNeedFetchedCode ==
    [][/\ last'.op \in {"ptz", "trigger"} =>
             /\ <<_camlist', _camcodes', _camnames'>> = <<_camlist, _camcodes, _camnames>>
             /\ \A i \in 1..Len(last'.sent) :
                   Item(Val(last'.sent[i]), "cmd") = PyStr(last'.op)
             /\ last'.sent # <<>> => InList(CameraOf(last'), _camcodes)
             /\ NoCamlistFetched => last'.sent = <<>>
       /\ _camcodes' # _camcodes =>
             (last'.op \in {"update_camlist", "cameras"} /\ last'.sent # <<>>)
       /\ phase = "new" => (_camlist' = UNKNOWN_LIST /\ _camcodes' = PyList(<<>>))]_vars

\* ptz was called with a camera the server has and a known action before any
\* camera-list fetch: nothing was posted
C16_Witness ==
    /\ last.op = "ptz"
    /\ NoCamlistFetched
    /\ last.arg = PyList(<<PyStr(CamCode(1)), PyInt(0)>>)
    /\ last.sent = <<>>
    /\ last.logs = <<"error">>

\* C17: trigger posts its command only on a session whose admin flag is true;
\* without the flag it posts nothing and logs one warning, for a listed camera
\* code as for an unknown one.
C17_TriggerNeedsAdmin ==
    last.op = "trigger" =>
        /\ last.sent # <<>> =>
              /\ _am_admin = PyBool(TRUE)
              /\ Len(last.sent) = 1
              /\ Item(Val(last.sent[1]), "cmd") = PyStr("trigger")
        /\ ~Truthy(_am_admin) =>
              (last.sent = <<>> /\ last.logs = <<"warning">> /\ last.exc = "")

\* trigger was called for a listed camera on a session without the admin flag
C17_Witness ==
    /\ last.op = "trigger"
    /\ _am_admin = PyBool(FALSE)
    /\ InList(last.arg, _camcodes)
    /\ last.sent = <<>>
    /\ last.logs = <<"warning">>

\* the session token and the response hash of the envelope cmd posted
SentSession == Item(Val(last.sent[1]), "session")
SentResponse == Item(Val(last.sent[1]), "response")

\* C18: with a command dispatched while login() runs, an envelope may carry a
\* session token with a response hash that is not its digest.  It does so only
\* when login() is between its two assignments as the hash is read, or has
\* stored a new token since the envelope's token was read; the stored pair
\* matches again once login() has assigned the hash.
C18_StaleHashOnlyAcrossLogin ==
    [][/\ (/\ last'.op = "cmd"
           /\ Len(last'.sent) = 1
           /\ args_session # Unset
           /\ ~HashOfToken(SentSession', SentResponse')) =>
             (phase = "in_login" \/ args_session # blueiris_session)
       /\ phase' = "ready" => HashOfToken(blueiris_session', response')]_vars

\* a command dispatched during a login carries the new token tok2 with the
\* response hash of the previous token tok1
C18_Witness ==
    /\ last.op = "cmd"
    /\ phase = "in_login"
    /\ Len(last.sent) = 1
    /\ SentSession = PyStr(TokenName(2))
    /\ SentResponse = md5_hexdigest(FormatCredentials(user, PyStr(TokenName(1)), password))
====
